---- MODULE Spec2Model ----
(***************************************************************************)
(* A model of goodok_mlu/utils.py: the environment watermark collector     *)
(* (watermark, with its helper find_in_lines) and log_text_as_artifact.    *)
(*                                                                         *)
(* Python strings are sequences of one-character strings.  A Python value  *)
(* stored in the report is a record [t, v]: t is "str", "bytes" or "None"  *)
(* and v the characters.  The report `lines` (an OrderedDict) is a         *)
(* sequence of records [k, v] in insertion order, k a label.               *)
(***************************************************************************)
EXTENDS Integers, Sequences, FiniteSets, TLC

VARIABLES
    pc,          \* position of the running call
    packages,    \* watermark's argument: the requested identifiers
    lines,       \* watermark's OrderedDict `lines`
    pip_list,    \* watermark's local `pip_list`: the listing's lines, as bytes
    s,           \* watermark's formatted text `s`, as printed
    result,      \* the value watermark returned
    outcome,     \* "none" while running, then "returned" or "raised"
    error,       \* the step whose exception reached the caller, or "none"
    observed,    \* what the call read from its environment, per source
    fd,          \* log_text_as_artifact: `fd` ("None" until mkstemp returns one)
    tmpfile,     \* log_text_as_artifact: the temporary file on disk
    warned,      \* log_text_as_artifact: the warnings issued, in order
    artifacts,   \* the tracker's store of logged artifacts
    removed      \* number of os.remove calls that deleted the file

vars == <<pc, packages, lines, pip_list, s, result, outcome, error, observed,
          fd, tmpfile, warned, artifacts, removed>>

wmVars == <<packages, lines, pip_list, s, result, observed>>
artVars == <<fd, tmpfile, warned, artifacts, removed>>

\* Longest request the model draws.
MaxReq == 2

----------------------------------------------------------------------------
(* Python values and strings *)

StrV(cs) == [t |-> "str", v |-> cs]
BytesV(cs) == [t |-> "bytes", v |-> cs]
NoneV == [t |-> "None", v |-> <<>>]

Whitespace == {" ", "\n", "\t"}
Digits == {"0", "1", "2", "3", "4", "5", "6", "7", "8", "9"}

\* line.decode('utf-8') when the line has a decode attribute (bytes)
Decode(line) == line.v

\* str(v), as "{}".format(v) renders a value
Str(val) ==
    CASE val.t = "None" -> <<"N", "o", "n", "e">>
      [] val.t = "bytes" -> <<"b", "'">> \o val.v \o <<"'">>
      [] OTHER -> val.v

\* line.startswith(p)
StartsWith(line, p) ==
    /\ Len(p) <= Len(line)
    /\ SubSeq(line, 1, Len(p)) = p

\* p in line
Contains(line, p) ==
    \E i \in 0..(Len(line) - Len(p)) : SubSeq(line, i + 1, i + Len(p)) = p

\* line.find(p) + 1 (0 when p does not occur); p is not empty
Find(line, p) ==
    IF Contains(line, p)
    THEN CHOOSE i \in 1..Len(line) :
            /\ i + Len(p) - 1 <= Len(line)
            /\ SubSeq(line, i, i + Len(p) - 1) = p
            /\ \A j \in 1..(i - 1) : SubSeq(line, j, j + Len(p) - 1) # p
    ELSE 0

\* line.split(sep), sep not empty
RECURSIVE Split(_, _)
Split(line, sep) ==
    LET i == Find(line, sep) IN
    IF i = 0 THEN <<line>>
    ELSE <<SubSeq(line, 1, i - 1)>>
            \o Split(SubSeq(line, i + Len(sep), Len(line)), sep)

\* sep.join(parts)
RECURSIVE Join(_, _)
Join(sep, parts) ==
    IF parts = <<>> THEN <<>>
    ELSE IF Len(parts) = 1 THEN parts[1]
    ELSE parts[1] \o sep \o Join(sep, Tail(parts))

RECURSIVE LStrip(_)
LStrip(cs) ==
    IF cs # <<>> /\ Head(cs) \in Whitespace THEN LStrip(Tail(cs)) ELSE cs

RECURSIVE RStrip(_)
RStrip(cs) ==
    IF cs # <<>> /\ cs[Len(cs)] \in Whitespace
    THEN RStrip(SubSeq(cs, 1, Len(cs) - 1)) ELSE cs

\* cs.strip()
Strip(cs) == RStrip(LStrip(cs))

\* re.split(r'\s+', cs): cut at every maximal run of whitespace
RECURSIVE ReSplitWs(_, _)
ReSplitWs(cs, cur) ==
    IF cs = <<>> THEN <<cur>>
    ELSE IF Head(cs) \in Whitespace
         THEN <<cur>> \o ReSplitWs(LStrip(cs), <<>>)
         ELSE ReSplitWs(Tail(cs), Append(cur, Head(cs)))

\* text.splitlines()
SplitLines(cs) ==
    IF cs = <<>> THEN <<>>
    ELSE LET parts == Split(cs, <<"\n">>) IN
         IF parts[Len(parts)] = <<>> THEN SubSeq(parts, 1, Len(parts) - 1)
         ELSE parts

\* the longest prefix of cs made of characters of `set`
RECURSIVE TakeWhile(_, _)
TakeWhile(cs, set) ==
    IF cs # <<>> /\ Head(cs) \in set
    THEN <<Head(cs)>> \o TakeWhile(Tail(cs), set) ELSE <<>>

RECURSIVE Spaces(_)
Spaces(n) == IF n <= 0 THEN <<>> ELSE <<" ">> \o Spaces(n - 1)

\* The characters of the string literals the model uses
Chars(str) ==
    CASE
         str = "python" ->
            <<"p", "y", "t", "h", "o", "n">>
      [] str = "virtualenv" ->
            <<"v", "i", "r", "t", "u", "a", "l", "e", "n", "v">>
      [] str = "hostname" ->
            <<"h", "o", "s", "t", "n", "a", "m", "e">>
      [] str = "nvidia" ->
            <<"n", "v", "i", "d", "i", "a">>
      [] str = "cudnn" ->
            <<"c", "u", "d", "n", "n">>
      [] str = "keras" ->
            <<"k", "e", "r", "a", "s">>
      [] str = "tensorflow" ->
            <<"t", "e", "n", "s", "o", "r", "f", "l", "o", "w">>
      [] str = "torch" ->
            <<"t", "o", "r", "c", "h">>
      [] str = "sparseconvnet" ->
            <<"s", "p", "a", "r", "s", "e", "c", "o", "n", "v", "n", "e",
              "t">>
      [] str = "pytorch-lightning" ->
            <<"p", "y", "t", "o", "r", "c", "h", "-", "l", "i", "g", "h",
              "t", "n", "i", "n", "g">>
      [] str = "numpy" ->
            <<"n", "u", "m", "p", "y">>
      [] str = "nvidia driver" ->
            <<"n", "v", "i", "d", "i", "a", " ", "d", "r", "i", "v", "e",
              "r">>
      [] str = "nvidia cuda" ->
            <<"n", "v", "i", "d", "i", "a", " ", "c", "u", "d", "a">>
      [] str = "tensorflow-gpu" ->
            <<"t", "e", "n", "s", "o", "r", "f", "l", "o", "w", "-", "g",
              "p", "u">>
      [] str = "Keras" ->
            <<"K", "e", "r", "a", "s">>
      [] str = "release" ->
            <<"r", "e", "l", "e", "a", "s", "e">>
      [] str = "#define CUDNN_MAJOR" ->
            <<"#", "d", "e", "f", "i", "n", "e", " ", "C", "U", "D", "N",
              "N", "_", "M", "A", "J", "O", "R">>
      [] str = "#define CUDNN_MINOR" ->
            <<"#", "d", "e", "f", "i", "n", "e", " ", "C", "U", "D", "N",
              "N", "_", "M", "I", "N", "O", "R">>
      [] str = "#define CUDNN_PATCHLEVEL" ->
            <<"#", "d", "e", "f", "i", "n", "e", " ", "C", "U", "D", "N",
              "N", "_", "P", "A", "T", "C", "H", "L", "E", "V", "E", "L">>
      [] str = "torch 1" ->
            <<"t", "o", "r", "c", "h", " ", "1">>
      [] str = "torchvision 2" ->
            <<"t", "o", "r", "c", "h", "v", "i", "s", "i", "o", "n", " ",
              "2">>
      [] str = "numpy 5" ->
            <<"n", "u", "m", "p", "y", " ", "5">>
      [] str = "Keras 3" ->
            <<"K", "e", "r", "a", "s", " ", "3">>
      [] str = "tensorflow-gpu 4" ->
            <<"t", "e", "n", "s", "o", "r", "f", "l", "o", "w", "-", "g",
              "p", "u", " ", "4">>
      [] str = "sparseconvnet 6 /p" ->
            <<"s", "p", "a", "r", "s", "e", "c", "o", "n", "v", "n", "e",
              "t", " ", "6", " ", "/", "p">>
      [] str = "pytorch-lightning 7" ->
            <<"p", "y", "t", "o", "r", "c", "h", "-", "l", "i", "g", "h",
              "t", "n", "i", "n", "g", " ", "7">>
      [] str = "nvcc: NVIDIA" ->
            <<"n", "v", "c", "c", ":", " ", "N", "V", "I", "D", "I", "A">>
      [] str = "Cuda tools, release 1, V1" ->
            <<"C", "u", "d", "a", " ", "t", "o", "o", "l", "s", ",", " ",
              "r", "e", "l", "e", "a", "s", "e", " ", "1", ",", " ", "V",
              "1">>
      [] str = "release 1" ->
            <<"r", "e", "l", "e", "a", "s", "e", " ", "1">>
      [] str = "#define CUDNN_MAJOR 7" ->
            <<"#", "d", "e", "f", "i", "n", "e", " ", "C", "U", "D", "N",
              "N", "_", "M", "A", "J", "O", "R", " ", "7">>
      [] str = "#define CUDNN_MINOR 6" ->
            <<"#", "d", "e", "f", "i", "n", "e", " ", "C", "U", "D", "N",
              "N", "_", "M", "I", "N", "O", "R", " ", "6">>
      [] str = "#define CUDNN_PATCHLEVEL 5" ->
            <<"#", "d", "e", "f", "i", "n", "e", " ", "C", "U", "D", "N",
              "N", "_", "P", "A", "T", "C", "H", "L", "E", "V", "E", "L",
              " ", "5">>
      [] str = "470" ->
            <<"4", "7", "0">>
      [] str = "3.8 (default)" ->
            <<"3", ".", "8", " ", "(", "d", "e", "f", "a", "u", "l", "t",
              ")">>
      [] str = "host" ->
            <<"h", "o", "s", "t">>
      [] str = "(env)" ->
            <<"(", "e", "n", "v", ")">>
      [] str = "/venv" ->
            <<"/", "v", "e", "n", "v">>
      [] str = "ab12" ->
            <<"a", "b", "1", "2">>

----------------------------------------------------------------------------
(* watermark: helpers *)

\* Column width of the label field in "{: <15} {}"
LabelWidth == 15

\* find_in_lines's loop over the lines from index i on
RECURSIVE find_from(_, _, _, _)
find_from(list, i, package_name, remove_name) ==
    IF i > Len(list) THEN <<>>
    ELSE LET line == Decode(list[i]) IN
         IF Contains(line, package_name) /\ StartsWith(line, package_name)
         THEN IF remove_name
              THEN Strip(Join(package_name,
                              Tail(Split(line, package_name))))
              ELSE Strip(line)
         ELSE find_from(list, i + 1, package_name, remove_name)

\* find_in_lines without the startswith test: a match anywhere in the line
RECURSIVE find_anywhere(_, _, _, _)
find_anywhere(list, i, package_name, remove_name) ==
    IF i > Len(list) THEN <<>>
    ELSE LET line == Decode(list[i]) IN
         IF Contains(line, package_name)
         THEN IF remove_name
              THEN Strip(Join(package_name,
                              Tail(Split(line, package_name))))
              ELSE Strip(line)
         ELSE find_anywhere(list, i + 1, package_name, remove_name)

find_in_lines_anywhere(list, package_name, remove_name) ==
    find_anywhere(list, 1, package_name, remove_name)

find_in_lines(list, package_name, remove_name) ==
    find_from(list, 1, package_name, remove_name)

\* key in lines
HasKey(d, k) == \E i \in 1..Len(d) : d[i].k = k

\* lines[k] (k is a key of d)
Get(d, k) == d[CHOOSE i \in 1..Len(d) : d[i].k = k].v

\* a list of pairs in place of the mapping: every assignment adds an entry
DictSetAppend(d, k, val) == Append(d, [k |-> k, v |-> val])

\* an assignment that moves a present key to the end
DictSetMoveToEnd(d, k, val) ==
    Append(SelectSeq(d, LAMBDA e : e.k # k), [k |-> k, v |-> val])

\* lines[k] = val on an OrderedDict: a new key goes last, a present key
\* keeps its place and takes the new value
DictSet(d, k, val) ==
    IF HasKey(d, k)
    THEN [i \in 1..Len(d) |-> IF d[i].k = k THEN [k |-> k, v |-> val] ELSE d[i]]
    ELSE Append(d, [k |-> k, v |-> val])

\* key in packages
Requested(pk, key) == \E i \in 1..Len(pk) : pk[i] = key

\* the list `parsed`
parsed == {"python", "virtualenv", "nvidia", "cudnn", "hostname",
           "sparseconvnet", "pytorch-lightning"}

\* "{: <15} {}".format(k + ":", v)
FormatEntry(e) ==
    LET label == Chars(e.k) \o <<":">> IN
    label \o Spaces(LabelWidth - Len(label)) \o <<" ">> \o Str(e.v)

\* "\n".join(res) over res = [format(...) for (k, v) in lines.items()]
FormatReport(d) == Join(<<"\n">>, [i \in 1..Len(d) |-> FormatEntry(d[i])])

\* the second pass: for key in packages: if key not in parsed: lines[key] = ...
RECURSIVE SecondPass(_, _, _, _)
SecondPass(d, pk, i, list) ==
    IF i > Len(pk) THEN d
    ELSE IF pk[i] \notin parsed
         THEN SecondPass(DictSet(d, pk[i],
                                 StrV(find_in_lines(list, Chars(pk[i]), TRUE))),
                         pk, i + 1, list)
         ELSE SecondPass(d, pk, i + 1, list)

----------------------------------------------------------------------------
(* The inputs the model draws *)

\* text of an external output: its lines, each ended by a newline
RECURSIVE Text(_)
Text(ls) == IF ls = <<>> THEN <<>> ELSE Chars(Head(ls)) \o <<"\n">> \o Text(Tail(ls))

Failed == [ok |-> FALSE, out |-> <<>>]
Output(cs) == [ok |-> TRUE, out |-> cs]
NotCalled == [ok |-> FALSE, out |-> <<"-">>]

Identifiers == {"python", "virtualenv", "hostname", "nvidia", "cudnn", "keras",
                "tensorflow", "torch", "sparseconvnet", "pytorch-lightning",
                "numpy", "tensorflow-gpu"}

RECURSIVE SeqsUpTo(_, _)
SeqsUpTo(S, n) ==
    IF n = 0 THEN {<<>>}
    ELSE LET shorter == SeqsUpTo(S, n - 1) IN
         shorter \cup {Append(q, x) : q \in shorter, x \in S}

Requests == SeqsUpTo(Identifiers, MaxReq)

NotSet == [set |-> FALSE, val |-> <<>>]
EnvVal(cs) == [set |-> TRUE, val |-> cs]

\* os.environ: PS1 and VIRTUAL_ENV, each set or not; a two-line prompt
Environs == [PS1 : {NotSet, EnvVal(Chars("(env)")), EnvVal(<<"e", "\n", "$">>)},
             VIRTUAL_ENV : {NotSet, EnvVal(Chars("/venv"))}]

\* sys.version
Versions == {Chars("3.8 (default)") \o <<"\n">> \o <<"[", "G", "C", "C", "]">>,
             <<"v", "3">>}

\* nvidia-smi --query-gpu=driver_version: fails, prints a version, prints nothing
SmiResults == {Failed, Output(Text(<<"470">>)), Output(<<>>)}

\* nvcc --version: fails, prints its banner, prints text without "release",
\* prints a line that begins with "release"
NvccResults == {Failed,
                Output(Text(<<"nvcc: NVIDIA", "Cuda tools, release 1, V1">>)),
                Output(Text(<<"nvcc: NVIDIA">>)),
                Output(Text(<<"release 1">>))}

\* /usr/local/cuda/include/cudnn.h: unreadable, or with the three macros
CudnnResults == {Failed,
                 Output(Text(<<"#define CUDNN_MAJOR 7", "#define CUDNN_MINOR 6",
                               "#define CUDNN_PATCHLEVEL 5">>))}

\* pip list: fails, or prints one line per installed package
PipResults == {Failed,
               Output(<<>>),
               Output(Text(<<"Keras 3", "numpy 5", "torch 1", "torchvision 2">>)),
               Output(Text(<<"tensorflow-gpu 4", "torchvision 2">>)),
               Output(Text(<<"pytorch-lightning 7", "sparseconvnet 6 /p">>))}

\* git.Repo(path).head.object.hexsha: fails, or a commit hash
GitResults == {Failed, Output(Chars("ab12"))}

Unread == [PS1 |-> NotSet, VIRTUAL_ENV |-> NotSet]

NothingObserved ==
    [environ |-> Unread, version |-> <<>>, linux |-> FALSE, smi |-> NotCalled,
     nvcc |-> NotCalled, cudnn |-> NotCalled, pip |-> NotCalled,
     git |-> [key \in {"sparseconvnet", "pytorch-lightning"} |-> NotCalled]]

----------------------------------------------------------------------------
(* Initial state and the call of watermark *)

NoFile == [exists |-> FALSE, content |-> <<>>]

Init ==
    /\ pc = "idle"
    /\ packages = <<>>
    /\ lines = <<>>
    /\ pip_list = <<>>
    /\ s = <<>>
    /\ result = NoneV
    /\ outcome = "none"
    /\ error = "none"
    /\ observed = NothingObserved
    /\ fd = "None"
    /\ tmpfile = NoFile
    /\ warned = <<>>
    /\ artifacts = <<>>
    /\ removed = 0

\* an exception leaves the running call and reaches the caller
Raise(step) ==
    /\ pc' = "done"
    /\ outcome' = "raised"
    /\ error' = step

Goto(label) ==
    /\ pc' = label
    /\ UNCHANGED <<outcome, error>>

\* watermark(packages): lines = OrderedDict()
CallWatermark ==
    /\ pc = "idle"
    /\ \E pk \in Requests : packages' = pk
    /\ lines' = <<>>
    /\ Goto("virtualenv")
    /\ UNCHANGED <<pip_list, s, result, observed>>
    /\ UNCHANGED artVars

\* if 'virtualenv' in packages: PS1, else VIRTUAL_ENV, else None
Virtualenv ==
    /\ pc = "virtualenv"
    /\ IF Requested(packages, "virtualenv")
       THEN \E env \in Environs :
               /\ observed' = [observed EXCEPT !.environ = env]
               /\ lines' = DictSet(lines, "virtualenv",
                              IF env.PS1.set THEN StrV(env.PS1.val)
                              ELSE IF env.VIRTUAL_ENV.set
                                   THEN StrV(env.VIRTUAL_ENV.val)
                                   ELSE NoneV)
       ELSE UNCHANGED <<observed, lines>>
    /\ Goto("python")
    /\ UNCHANGED <<packages, pip_list, s, result>>
    /\ UNCHANGED artVars

\* if 'python' in packages: first line of sys.version, cut to its leading
\* run of digits and dots when there is one
Python ==
    /\ pc = "python"
    /\ IF Requested(packages, "python")
       THEN \E version \in Versions :
               LET r == SplitLines(version)[1]
                   m == TakeWhile(r, Digits \cup {"."})
               IN /\ observed' = [observed EXCEPT !.version = version]
                  /\ lines' = DictSet(lines, "python",
                                      StrV(IF m # <<>> THEN m ELSE r))
       ELSE UNCHANGED <<observed, lines>>
    /\ Goto("hostname")
    /\ UNCHANGED <<packages, pip_list, s, result>>
    /\ UNCHANGED artVars

\* if 'hostname' in packages: platform.node()
Hostname ==
    /\ pc = "hostname"
    /\ IF Requested(packages, "hostname")
       THEN lines' = DictSet(lines, "hostname", StrV(Chars("host")))
       ELSE UNCHANGED lines
    /\ Goto("nvidia")
    /\ UNCHANGED <<packages, pip_list, s, result, observed>>
    /\ UNCHANGED artVars

\* if 'nvidia' in packages: nvidia-smi, outside any try; the first line of
\* its output, as bytes
NvidiaSmi ==
    /\ pc = "nvidia"
    /\ IF Requested(packages, "nvidia")
       THEN \E r \in SmiResults :
               /\ observed' = [observed EXCEPT !.smi = r]
               /\ IF ~r.ok
                  THEN Raise("nvidia-smi") /\ UNCHANGED lines
                  ELSE IF SplitLines(r.out) = <<>>
                       THEN Raise("nvidia-smi") /\ UNCHANGED lines
                       ELSE /\ lines' = DictSet(lines, "nvidia driver",
                                                BytesV(SplitLines(r.out)[1]))
                            /\ Goto("nvcc")
       ELSE UNCHANGED <<observed, lines>> /\ Goto("cudnn")
    /\ UNCHANGED <<packages, pip_list, s, result>>
    /\ UNCHANGED artVars

\* nvcc --version inside try/except: the text after "release" on the line
\* find_in_lines selects; any exception leaves the entry out
Nvcc ==
    /\ pc = "nvcc"
    /\ \E r \in NvccResults :
          /\ observed' = [observed EXCEPT !.nvcc = r]
          /\ IF ~r.ok
             THEN UNCHANGED lines
             ELSE LET out == [i \in 1..Len(SplitLines(r.out)) |->
                                 BytesV(SplitLines(r.out)[i])]
                      found == find_in_lines(out, Chars("release"), FALSE)
                      parts == Split(found, Chars("release"))
                  IN IF Len(parts) < 2
                     THEN UNCHANGED lines
                     ELSE lines' = DictSet(lines, "nvidia cuda",
                                           StrV(Strip(parts[2])))
    /\ Goto("cudnn")
    /\ UNCHANGED <<packages, pip_list, s, result>>
    /\ UNCHANGED artVars

\* f.readlines(): the lines, each with its newline
ReadLines(cs) ==
    [i \in 1..Len(SplitLines(cs)) |-> StrV(SplitLines(cs)[i] \o <<"\n">>)]

\* if 'cudnn' in packages and on linux: the three macros of cudnn.h inside
\* try/except
Cudnn ==
    /\ pc = "cudnn"
    /\ IF Requested(packages, "cudnn")
       THEN \E linux \in BOOLEAN :
               IF linux
               THEN \E f \in CudnnResults :
                       /\ observed' = [observed EXCEPT !.linux = TRUE,
                                                       !.cudnn = f]
                       /\ IF ~f.ok
                          THEN UNCHANGED lines
                          ELSE LET r == ReadLines(f.out)
                                   v1 == find_in_lines(r, Chars("#define CUDNN_MAJOR"), TRUE)
                                   v2 == find_in_lines(r, Chars("#define CUDNN_MINOR"), TRUE)
                                   v3 == find_in_lines(r, Chars("#define CUDNN_PATCHLEVEL"), TRUE)
                               IN lines' = DictSet(lines, "cudnn",
                                       StrV(v1 \o <<".">> \o v2 \o <<".">> \o v3))
               ELSE UNCHANGED <<observed, lines>>
       ELSE UNCHANGED <<observed, lines>>
    /\ Goto("pip")
    /\ UNCHANGED <<packages, pip_list, s, result>>
    /\ UNCHANGED artVars

\* pip_list = subprocess.check_output(["pip", "list"]).splitlines(), outside
\* any try
PipList ==
    /\ pc = "pip"
    /\ \E r \in PipResults :
          /\ observed' = [observed EXCEPT !.pip = r]
          /\ IF ~r.ok
             THEN Raise("pip") /\ UNCHANGED pip_list
             ELSE /\ pip_list' = [i \in 1..Len(SplitLines(r.out)) |->
                                     BytesV(SplitLines(r.out)[i])]
                  /\ Goto("keras")
    /\ UNCHANGED <<packages, lines, s, result>>
    /\ UNCHANGED artVars

\* if key in packages: lines[label] = find_in_lines(pip_list, name)
Lookup(here, key, label, name, next) ==
    /\ pc = here
    /\ IF Requested(packages, key)
       THEN lines' = DictSet(lines, label,
                             StrV(find_in_lines(pip_list, Chars(name), TRUE)))
       ELSE UNCHANGED lines
    /\ Goto(next)
    /\ UNCHANGED <<packages, pip_list, s, result, observed>>
    /\ UNCHANGED artVars

Keras == Lookup("keras", "keras", "keras", "Keras", "tensorflow")

Tensorflow == Lookup("tensorflow", "tensorflow", "tensorflow-gpu", "tensorflow-gpu", "torch")

Torch == Lookup("torch", "torch", "torch", "torch", "sparseconvnet")

\* for key in ['sparseconvnet', 'pytorch-lightning']: the listing's value,
\* with the commit hash of the path that follows the version, if any
WithCommit(key, next) ==
    /\ pc = key
    /\ IF Requested(packages, key)
       THEN LET line == find_in_lines(pip_list, Chars(key), TRUE)
                a == ReSplitWs(line, <<>>)
            IN IF Len(a) > 1
               THEN \E g \in GitResults :
                       /\ observed' = [observed EXCEPT !.git[key] = g]
                       /\ lines' = DictSet(lines, key,
                                     StrV(IF g.ok THEN line \o <<" ">> \o g.out
                                          ELSE line))
               ELSE /\ lines' = DictSet(lines, key, StrV(line))
                    /\ UNCHANGED observed
       ELSE UNCHANGED <<observed, lines>>
    /\ Goto(next)
    /\ UNCHANGED <<packages, pip_list, s, result>>
    /\ UNCHANGED artVars

Sparseconvnet == WithCommit("sparseconvnet", "pytorch-lightning")

PytorchLightning == WithCommit("pytorch-lightning", "others")

\* for key in packages: if key not in parsed: lines[key] = find_in_lines(...)
Others ==
    /\ pc = "others"
    /\ lines' = SecondPass(lines, packages, 1, pip_list)
    /\ Goto("format")
    /\ UNCHANGED <<packages, pip_list, s, result, observed>>
    /\ UNCHANGED artVars

\* res, s = "\n".join(res), print(s); if return_string: return s
Format ==
    /\ pc = "format"
    /\ s' = FormatReport(lines)
    /\ \E return_string \in BOOLEAN :
          result' = IF return_string THEN StrV(s') ELSE NoneV
    /\ pc' = "done"
    /\ outcome' = "returned"
    /\ UNCHANGED error
    /\ UNCHANGED <<packages, lines, pip_list, observed>>
    /\ UNCHANGED artVars

----------------------------------------------------------------------------
(* log_text_as_artifact(tracker, text, destination) *)

Texts == {<<>>, <<"a">>, <<"a", "\n", "b">>}
Destinations == {"None", "logs"}

\* warnings.warn(...): the except clause that issued it
Warn(which) == warned' = Append(warned, which)

\* the call: fd = None
CallLogText ==
    /\ pc = "idle"
    /\ fd' = "None"
    /\ pc' = "mkstemp"
    /\ UNCHANGED <<outcome, error, tmpfile, warned, artifacts, removed>>
    /\ UNCHANGED wmVars

\* fd, path = tempfile.mkstemp(): an empty file, or an exception the outer
\* except reports
Mkstemp ==
    /\ pc = "mkstemp"
    /\ \E ok \in BOOLEAN :
          IF ok
          THEN /\ fd' = "fd"
               /\ tmpfile' = [exists |-> TRUE, content |-> <<>>]
               /\ pc' = "write"
               /\ UNCHANGED warned
          ELSE /\ Warn("log_text_as_artifact")
               /\ pc' = "finally"
               /\ UNCHANGED <<fd, tmpfile>>
    /\ UNCHANGED <<outcome, error, artifacts, removed>>
    /\ UNCHANGED wmVars

\* with os.fdopen(fd, 'w') as tmp: tmp.write(text)
WriteText ==
    /\ pc = "write"
    /\ \E ok \in BOOLEAN :
          IF ok
          THEN /\ \E text \in Texts : tmpfile' = [tmpfile EXCEPT !.content = text]
               /\ pc' = "log_artifact"
               /\ UNCHANGED warned
          ELSE /\ Warn("log_text_as_artifact")
               /\ pc' = "finally"
               /\ UNCHANGED tmpfile
    /\ UNCHANGED <<outcome, error, fd, artifacts, removed>>
    /\ UNCHANGED wmVars

\* tracker.log_artifact(path, destination) inside the inner try: the tracker
\* stores the file's content, or raises and the inner except warns
LogArtifact ==
    /\ pc = "log_artifact"
    /\ \E ok \in BOOLEAN :
          IF ok
          THEN /\ \E destination \in Destinations :
                    artifacts' = Append(artifacts,
                        [destination |-> destination,
                         found |-> tmpfile.exists,
                         content |-> tmpfile.content])
               /\ UNCHANGED warned
          ELSE /\ Warn("log_artifact")
               /\ UNCHANGED artifacts
    /\ pc' = "finally"
    /\ UNCHANGED <<outcome, error, fd, tmpfile, removed>>
    /\ UNCHANGED wmVars

\* the removal placed after log_artifact inside the try: skipped once an
\* exception was caught
RemoveOnSuccess ==
    IF fd # "None" /\ warned = <<>>
    THEN /\ tmpfile' = [exists |-> FALSE, content |-> <<>>]
         /\ removed' = removed + 1
    ELSE UNCHANGED <<tmpfile, removed>>

\* the body of `finally`
RemoveIfOpened ==
    IF fd # "None"
    THEN /\ tmpfile' = [exists |-> FALSE, content |-> <<>>]
         /\ removed' = removed + 1
    ELSE UNCHANGED <<tmpfile, removed>>

\* finally: if fd is not None: os.remove(path); then the call returns
Finally ==
    /\ pc = "finally"
    /\ RemoveIfOpened
    /\ pc' = "art_done"
    /\ outcome' = "returned"
    /\ UNCHANGED <<error, fd, warned, artifacts>>
    /\ UNCHANGED wmVars

----------------------------------------------------------------------------

Next ==
    \/ CallWatermark
    \/ Virtualenv
    \/ Python
    \/ Hostname
    \/ NvidiaSmi
    \/ Nvcc
    \/ Cudnn
    \/ PipList
    \/ Keras
    \/ Tensorflow
    \/ Torch
    \/ Sparseconvnet
    \/ PytorchLightning
    \/ Others
    \/ Format
    \/ CallLogText
    \/ Mkstemp
    \/ WriteText
    \/ LogArtifact
    \/ Finally

Spec == Init /\ [][Next]_vars

----------------------------------------------------------------------------
(* Vocabulary of the properties *)

\* the call of watermark has ended / has ended by returning its report
Ended == pc = "done"
Returned == pc = "done" /\ outcome = "returned"

RequestedSet == {packages[i] : i \in 1..Len(packages)}
KeySet == {lines[i].k : i \in 1..Len(lines)}
NoDuplicateKeys == \A i, j \in 1..Len(lines) : lines[i].k = lines[j].k => i = j

\* index of the first occurrence of id in the request
FirstIndex(id) == CHOOSE i \in 1..Len(packages) :
                     packages[i] = id /\ \A j \in 1..(i - 1) : packages[j] # id

\* every external call the run made succeeded
AllSucceeded ==
    /\ observed.smi = NotCalled \/ observed.smi.ok
    /\ observed.nvcc = NotCalled \/ observed.nvcc.ok
    /\ observed.cudnn = NotCalled \/ observed.cudnn.ok
    /\ observed.pip.ok
    /\ \A key \in DOMAIN observed.git :
          observed.git[key] = NotCalled \/ observed.git[key].ok

\* the labels watermark's first pass files its facts under, in the order it
\* files them
FirstPassOrder == <<"virtualenv", "python", "hostname", "nvidia driver",
                    "nvidia cuda", "cudnn", "keras", "tensorflow-gpu", "torch",
                    "sparseconvnet", "pytorch-lightning">>

FactOf(label) ==
    CASE label \in {"nvidia driver", "nvidia cuda"} -> "nvidia"
      [] label = "tensorflow-gpu" -> "tensorflow"
      [] OTHER -> label

\* the labels the first pass filed for this request
FirstPassLabels ==
    {FirstPassOrder[n] : n \in {m \in 1..Len(FirstPassOrder) :
                                  FactOf(FirstPassOrder[m]) \in RequestedSet}}

PlaceOf(label) == CHOOSE n \in 1..Len(FirstPassOrder) : FirstPassOrder[n] = label

\* some line of nvcc's output begins with / contains the word "release"
NvccLines == SplitLines(observed.nvcc.out)
ReleaseLeads == \E i \in 1..Len(NvccLines) : StartsWith(NvccLines[i], Chars("release"))
ReleaseOccurs == \E i \in 1..Len(NvccLines) : Contains(NvccLines[i], Chars("release"))

\* the listing lines that start with the characters of id
Matching(id) == {i \in 1..Len(pip_list) : StartsWith(pip_list[i].v, Chars(id))}

----------------------------------------------------------------------------
(* C1 *)

\* C1: when 'nvidia' is requested and nvidia-smi is unavailable or fails, the
\* call still returns a report, with an entry for every other requested fact
\* and without the 'nvidia driver' and 'nvidia cuda' entries.
C1_ReportDespiteSmiFailure ==
    (Ended /\ Requested(packages, "nvidia") /\ ~observed.smi.ok
        /\ observed.smi # NotCalled)
    => /\ outcome = "returned"
       /\ "nvidia driver" \notin KeySet
       /\ "nvidia cuda" \notin KeySet
       /\ \A id \in RequestedSet \ {"nvidia", "cudnn"} : id \in KeySet

(* C2 *)

\* C2: whatever external calls fail, watermark never lets an error reach its
\* caller: every call that ends, ends by returning a report.
C2_NeverRaises == Ended => outcome = "returned"

(* C3 *)

\* C3 as stated: when all external calls succeed, the report holds exactly one
\* entry per requested built-in fact plus one per requested non-built-in
\* identifier, and nothing else: as many entries as distinct identifiers.
C3_OneEntryPerIdentifier ==
    (Returned /\ AllSucceeded /\ (Requested(packages, "cudnn") => observed.linux))
    => /\ NoDuplicateKeys
       /\ Len(lines) = Cardinality(RequestedSet)

\* the labels a request is due, fact by fact
LabelsOf(id) ==
    CASE id = "nvidia" ->
            {"nvidia driver"} \cup (IF ReleaseLeads THEN {"nvidia cuda"} ELSE {})
      [] id = "cudnn" -> IF observed.linux THEN {"cudnn"} ELSE {}
      [] id = "tensorflow" -> {"tensorflow-gpu", "tensorflow"}
      [] OTHER -> {id}

\* C3 amended: when all external calls succeed, the report holds exactly one
\* entry per label, and its labels are: the identifier itself for every
\* requested identifier other than nvidia, cudnn and tensorflow; 'cudnn' for
\* cudnn on linux; 'nvidia driver' for nvidia, and 'nvidia cuda' too when a
\* line of nvcc's output begins with "release"; 'tensorflow-gpu' and
\* 'tensorflow' for tensorflow.
C3_EntriesPerLabel ==
    (Returned /\ AllSucceeded)
    => /\ NoDuplicateKeys
       /\ KeySet = UNION {LabelsOf(id) : id \in RequestedSet}

\* a returned report for a request that repeats an identifier and names
\* tensorflow, with every external call successful
C3_Witness ==
    /\ Returned /\ AllSucceeded
    /\ Len(packages) > Cardinality(RequestedSet)
    /\ Requested(packages, "tensorflow")
    /\ Len(lines) = 2

(* C4 *)

\* C4 as stated: the entries of built-in facts appear in the order in which
\* those facts occur in the request, and the entries of the other names come
\* after every built-in entry, in request order.
C4_BuiltInsInRequestOrder ==
    Returned
    => \A i, j \in 1..Len(lines) :
          (i < j /\ lines[i].k \in FirstPassLabels /\ lines[j].k \in FirstPassLabels)
          => FirstIndex(FactOf(lines[i].k)) <= FirstIndex(FactOf(lines[j].k))

\* C4 amended: the entries of built-in facts appear in the fixed order
\* virtualenv, python, hostname, nvidia driver, nvidia cuda, cudnn, keras,
\* tensorflow-gpu, torch, sparseconvnet, pytorch-lightning, whatever their
\* order in the request; the entries of all other names come after every
\* built-in entry, in the order of their first occurrence in the request.
C4_FixedOrderThenRequestOrder ==
    Returned
    => \A i, j \in 1..Len(lines) :
          i < j =>
            LET a == lines[i].k
                b == lines[j].k
            IN /\ b \in FirstPassLabels => a \in FirstPassLabels
               /\ (a \in FirstPassLabels /\ b \in FirstPassLabels)
                     => PlaceOf(a) < PlaceOf(b)
               /\ (a \notin FirstPassLabels /\ b \notin FirstPassLabels)
                     => FirstIndex(a) < FirstIndex(b)

\* a report whose built-in entries are in the reverse of their request order,
\* and one where a package name requested first is filed after a built-in
C4_Witness ==
    /\ Returned
    /\ \/ packages = <<"hostname", "python">>
             /\ lines[1].k = "python" /\ lines[2].k = "hostname"
       \/ packages = <<"numpy", "keras">>
             /\ lines[1].k = "keras" /\ lines[2].k = "numpy"

(* C5 *)

\* C5: an identifier outside the first pass that matches no line of the
\* installed-package listing has an entry in the report, with the empty
\* string as its value.
C5_UnknownPackageIsEmpty ==
    Returned
    => \A id \in RequestedSet \ parsed :
          Matching(id) = {} => /\ HasKey(lines, id)
                               /\ Get(lines, id) = StrV(<<>>)

\* numpy requested against a listing of other packages, one of which holds
\* a requested name in the middle of its own
C5_Witness ==
    /\ Returned
    /\ packages = <<"numpy", "torch">>
    /\ pip_list # <<>>
    /\ Matching("numpy") = {} /\ Matching("torch") = {}
    /\ Get(lines, "numpy") = StrV(<<>>)

(* C6 *)

\* C6: the 'virtualenv' entry shows PS1 if PS1 is set, else VIRTUAL_ENV if
\* that is set, else an empty value.
C6_VirtualenvValue ==
    (Returned /\ Requested(packages, "virtualenv"))
    => Str(Get(lines, "virtualenv")) =
          (IF observed.environ.PS1.set THEN observed.environ.PS1.val
           ELSE IF observed.environ.VIRTUAL_ENV.set
                THEN observed.environ.VIRTUAL_ENV.val
                ELSE <<>>)

(* C7 *)

\* the text after the first "release" of the first line that contains it,
\* cut to its first token
TokenAfterRelease ==
    LET i == CHOOSE n \in 1..Len(NvccLines) :
                /\ Contains(NvccLines[n], Chars("release"))
                /\ \A m \in 1..(n - 1) : ~Contains(NvccLines[m], Chars("release"))
        rest == Split(NvccLines[i], Chars("release"))[2]
    IN ReSplitWs(Strip(rest), <<>>)[1]

\* C7: with the driver query successful, an nvcc output that has a line
\* containing "release" gives an 'nvidia cuda' entry holding the token that
\* follows the word; a failed nvcc call leaves that entry out and keeps
\* 'nvidia driver'.
C7_ToolkitVersion ==
    (Returned /\ Requested(packages, "nvidia"))
    => /\ HasKey(lines, "nvidia driver")
       /\ ~observed.nvcc.ok => ~HasKey(lines, "nvidia cuda")
       /\ (observed.nvcc.ok /\ ReleaseOccurs)
             => /\ HasKey(lines, "nvidia cuda")
                /\ Get(lines, "nvidia cuda") = StrV(TokenAfterRelease)

(* C8 *)

\* C8: the text of a report of N entries has exactly N lines, none empty, in
\* the report's order, line i being entry i's label and colon padded to the
\* column width and then entry i's value.
C8_OneLinePerEntry ==
    Returned
    => LET text == IF s = <<>> THEN <<>> ELSE Split(s, <<"\n">>) IN
       /\ Len(text) = Len(lines)
       /\ \A i \in 1..Len(text) : text[i] # <<>> /\ text[i] = FormatEntry(lines[i])

(* C9 *)

\* C9: log_text_as_artifact always returns, whether log_artifact succeeds or
\* raises; a call that does not log the artifact issues exactly one warning
\* instead; the temporary file exists from its creation until log_artifact
\* has been attempted, is what log_artifact finds, and is gone, deleted
\* exactly once, when the call returns.
C9_TempFileRemoved ==
    /\ pc \in {"write", "log_artifact"} => tmpfile.exists /\ removed = 0
    /\ (pc = "finally" /\ fd # "None") => tmpfile.exists /\ removed = 0
    /\ \A i \in 1..Len(artifacts) : artifacts[i].found
    /\ pc = "art_done"
          => /\ outcome = "returned"
             /\ ~tmpfile.exists
             /\ removed = (IF fd # "None" THEN 1 ELSE 0)
             /\ Len(artifacts) + Len(warned) = 1

\* a call whose log_artifact raised: warned once, file created and deleted
C9_Witness ==
    /\ pc = "art_done"
    /\ warned = <<"log_artifact">>
    /\ artifacts = <<>>
    /\ removed = 1

(* C10 *)

\* the line is the listing's entry of package id: the name, then whitespace
\* or nothing
EntryOf(line, id) ==
    /\ StartsWith(line, Chars(id))
    /\ Len(line) > Len(Chars(id)) => line[Len(Chars(id)) + 1] \in Whitespace

====
